---- MODULE Spec2Model ----
(***************************************************************************)
(* Model of libs/plugins/python/aws_creds.py: the AWSCredentials class     *)
(* (constructor, set_default_role, export_role) and the __main__ driver.   *)
(*                                                                         *)
(* The file system is the two fixed paths CREDENTIALS_FILE and             *)
(* CREDENTIALS_BACKUP.  A credentials file is the ordered list of its      *)
(* sections, each an ordered list of key/value lines.  configparser is     *)
(* modelled by what the program uses of it: option names are folded to     *)
(* lower case on read and on set (optionxform), a section is an insertion  *)
(* ordered dict, add_section raises DuplicateSectionError, items() raises  *)
(* NoSectionError, write() emits the sections in _sections order.          *)
(* os.rename is the POSIX one (the tool is a plugin of a bash library):    *)
(* an existing destination file is replaced silently.                      *)
(* Domain: files that parse, without a [DEFAULT] block and without '%'     *)
(* interpolation in values.                                                *)
(***************************************************************************)
EXTENDS Integers, Sequences, FiniteSets, TLC

\* ---------------------------------------------------------------- bounds
MaxSections == 2        \* sections in a credentials file at start
MaxItems == 2           \* key/value lines per section at start

\* ------------------------------------------------------ program constants
DEFAULT_ROLE == "default"
CREDENTIALS_FILE == "~/.aws/credentials"
CREDENTIALS_BACKUP == "~/.aws/credentials.aws_save"
Paths == {CREDENTIALS_FILE, CREDENTIALS_BACKUP}

\* --------------------------------------------------------- input domains
SectionNames == {"default", "dev", "prod"}
RoleArgs == {"default", "dev", "prod"}
Regions == {"us-east-1", "eu-west-1"}
FileKeys == {"key_id", "REGION"}

\* str.lower() / str.upper() on the option names that occur
Lower(k) ==
  CASE k = "KEY_ID" -> "key_id"
    [] k = "REGION" -> "region"
    [] k = "AWS_DEFAULT_REGION" -> "aws_default_region"
    [] OTHER -> k

Upper(k) ==
  CASE k = "key_id" -> "KEY_ID"
    [] k = "region" -> "REGION"
    [] k = "aws_default_region" -> "AWS_DEFAULT_REGION"
    [] OTHER -> k

\* code point order of the section names: "default" < "dev" < "prod"
StrOrd(n) ==
  CASE n = "default" -> 1
    [] n = "dev" -> 2
    [] n = "prod" -> 3
    [] OTHER -> 4

SeqToSet(s) == {s[i] : i \in 1..Len(s)}

\* ------------------------------------------------ configparser operations
\* names of the sections, in order (ConfigParser.sections)
Sections(secs) == [i \in 1..Len(secs) |-> secs[i].name]

HasSection(secs, name) == \E i \in 1..Len(secs) : secs[i].name = name

SectionIndex(secs, name) == CHOOSE i \in 1..Len(secs) : secs[i].name = name

\* ConfigParser.items(section) of an existing section: a list snapshot
Items(secs, name) ==
  IF HasSection(secs, name) THEN secs[SectionIndex(secs, name)].items ELSE <<>>

KeySet(items) == {items[i].key : i \in 1..Len(items)}

HasOption(items, key) == Lower(key) \in KeySet(items)

\* lookup of an option, the name folded by optionxform
Get(items, key) ==
  LET i == CHOOSE j \in 1..Len(items) : items[j].key = Lower(key) IN items[i].val

\* dict assignment under optionxform: an existing key keeps its position
SetOption(items, key, val) ==
  LET k == Lower(key) IN
  IF k \in KeySet(items)
  THEN [i \in 1..Len(items) |->
          IF items[i].key = k THEN [key |-> k, val |-> val] ELSE items[i]]
  ELSE Append(items, [key |-> k, val |-> val])

\* ConfigParser.set(section, option, value) on an existing section
Set(secs, name, key, val) ==
  [i \in 1..Len(secs) |->
     IF secs[i].name = name
     THEN [name |-> name, items |-> SetOption(secs[i].items, key, val)]
     ELSE secs[i]]

AddSection(secs, name) == Append(secs, [name |-> name, items |-> <<>>])

\* sorted(..., key=lambda t: t[0]): stable, ascending by section name
InsertSorted(sorted, x) ==
  LET n == Cardinality({i \in 1..Len(sorted) : StrOrd(sorted[i].name) <= StrOrd(x.name)})
  IN SubSeq(sorted, 1, n) \o <<x>> \o SubSeq(sorted, n + 1, Len(sorted))

\* a set_default_role that leaves the sections in insertion order
SortSectionsNone(secs) == secs

RECURSIVE SortSections(_)
SortSections(secs) ==
  IF secs = <<>> THEN <<>>
  ELSE InsertSorted(SortSections(SubSeq(secs, 1, Len(secs) - 1)), secs[Len(secs)])

\* The text of a file: its lines, a section header or a "key = value" line
Header(name) == [kind |-> "section", key |-> name, val |-> ""]
Option(key, val) == [kind |-> "option", key |-> key, val |-> val]

\* ConfigParser.read: a header opens a section, an option line sets the
\* option in the section last opened, its name folded to lower case
RECURSIVE Parse(_)
Parse(text) ==
  IF text = <<>> THEN <<>>
  ELSE LET before == Parse(SubSeq(text, 1, Len(text) - 1))
           line == text[Len(text)]
       IN IF line.kind = "section"
          THEN AddSection(before, line.key)
          ELSE Set(before, before[Len(before)].name, line.key, line.val)

\* ConfigParser.write: every section of _sections in order, its header and
\* then its options as stored
RECURSIVE WriteText(_)
WriteText(secs) ==
  IF secs = <<>> THEN <<>>
  ELSE <<Header(Head(secs).name)>> \o
       [i \in 1..Len(Head(secs).items) |->
          Option(Head(secs).items[i].key, Head(secs).items[i].val)] \o
       WriteText(Tail(secs))

\* -------------------------------------------------------------- the files
NoFile == [exists |-> FALSE, text |-> <<>>]
FileOf(text) == [exists |-> TRUE, text |-> text]

Exists(f, path) == f[path].exists

\* a rename that copies: the source stays
OsRenameCopies(f, src, dst) == [f EXCEPT ![dst] = f[src]]

\* os.rename on POSIX: the destination is replaced, the source disappears
OsRename(f, src, dst) == [f EXCEPT ![dst] = f[src], ![src] = NoFile]

\* open(path, 'w') + write + close: the file is created or fully overwritten
OpenWrite(f, path, text) == [f EXCEPT ![path] = FileOf(text)]

\* ------------------------------------------------------------ the methods
Event(ev, key, val) == [ev |-> ev, key |-> key, val |-> val]

\* lines 75-76: for (key_var, key_val) in items(role): set(DEFAULT_ROLE, ...)
RECURSIVE CopyItems(_, _)
CopyItems(secs, its) ==
  IF its = <<>> THEN secs
  ELSE CopyItems(Set(secs, DEFAULT_ROLE, Head(its).key, Head(its).val), Tail(its))

\* a set_default_role that sets AWS_DEFAULT_REGION and forgets REGION
ApplyRoleOneRegionKey(secs, role, region) ==
  Set(CopyItems(secs, Items(secs, role)), DEFAULT_ROLE, "AWS_DEFAULT_REGION", region)

\* lines 75-79: the role's items, then the two region keys
ApplyRole(secs, role, region) ==
  Set(Set(CopyItems(secs, Items(secs, role)),
          DEFAULT_ROLE, "AWS_DEFAULT_REGION", region),
      DEFAULT_ROLE, "REGION", region)

\* lines 68-69: the test is on self.roles, the section list taken at load
EnsureDefault(secs, rls) ==
  IF DEFAULT_ROLE \notin SeqToSet(rls) THEN AddSection(secs, DEFAULT_ROLE) ELSE secs

\* set_default_role as a function of the object and its arguments:
\* the outcome, the new _sections, whether the file is written, the prints
SetDefaultRoleCall(secs, rls, role, region, export) ==
  LET sorted == SortSections(EnsureDefault(secs, rls))
      done == ApplyRole(sorted, role, region)
  IN IF DEFAULT_ROLE \notin SeqToSet(rls) /\ HasSection(secs, DEFAULT_ROLE)
     THEN [result |-> "DuplicateSectionError", creds |-> secs, assigned |-> FALSE,
           written |-> FALSE, events |-> <<>>]
     ELSE IF ~HasSection(sorted, role)
     THEN [result |-> "NoSectionError", creds |-> sorted, assigned |-> TRUE,
           written |-> FALSE, events |-> <<>>]
     ELSE [result |-> "ok", creds |-> done, assigned |-> TRUE, written |-> TRUE,
           events |-> <<Event("write", CREDENTIALS_FILE, "")>> \o
                      (IF export THEN <<>>
                       ELSE <<Event("confirm", role, CREDENTIALS_FILE)>>)]

\* lines 49-51: one export line per item, the key upper-cased
ExportLines(its) ==
  [i \in 1..Len(its) |-> Event("export", Upper(its[i].key), its[i].val)]

\* an export_role that moves the file away before it prints the lines
ExportRoleCallRenamesFirst(secs, f, role) ==
  IF ~HasSection(secs, role)
  THEN [result |-> "NoSectionError", fs |-> f, events |-> <<>>]
  ELSE IF ~Exists(f, CREDENTIALS_FILE)
  THEN [result |-> "FileNotFoundError", fs |-> f, events |-> <<>>]
  ELSE [result |-> "ok", fs |-> OsRename(f, CREDENTIALS_FILE, CREDENTIALS_BACKUP),
        events |-> <<Event("rename", CREDENTIALS_FILE, CREDENTIALS_BACKUP)>> \o
                   ExportLines(Items(secs, role)) \o
                   <<Event("notice", CREDENTIALS_FILE, CREDENTIALS_BACKUP)>>]

\* export_role as a function of the object, the files and its argument
ExportRoleCall(secs, f, role) ==
  IF ~HasSection(secs, role)
  THEN [result |-> "NoSectionError", fs |-> f, events |-> <<>>]
  ELSE IF ~Exists(f, CREDENTIALS_FILE)
  THEN [result |-> "FileNotFoundError", fs |-> f,
        events |-> ExportLines(Items(secs, role))]
  ELSE [result |-> "ok", fs |-> OsRename(f, CREDENTIALS_FILE, CREDENTIALS_BACKUP),
        events |-> ExportLines(Items(secs, role)) \o
                   <<Event("rename", CREDENTIALS_FILE, CREDENTIALS_BACKUP),
                     Event("notice", CREDENTIALS_FILE, CREDENTIALS_BACKUP)>>]

\* a constructor that reads the backup where it lies, without renaming it
LoadCallReadsBackup(f) ==
  IF Exists(f, CREDENTIALS_FILE)
  THEN [result |-> "ok", fs |-> f, creds |-> Parse(f[CREDENTIALS_FILE].text)]
  ELSE IF Exists(f, CREDENTIALS_BACKUP)
  THEN [result |-> "ok", fs |-> f, creds |-> Parse(f[CREDENTIALS_BACKUP].text)]
  ELSE [result |-> "exit(1)", fs |-> f, creds |-> <<>>]

\* lines 24-36 of the constructor: recover from the backup, or fail
LoadCall(f) ==
  IF Exists(f, CREDENTIALS_FILE)
  THEN [result |-> "ok", fs |-> f, creds |-> Parse(f[CREDENTIALS_FILE].text)]
  ELSE IF Exists(f, CREDENTIALS_BACKUP)
  THEN [result |-> "ok", fs |-> OsRename(f, CREDENTIALS_BACKUP, CREDENTIALS_FILE),
        creds |-> Parse(f[CREDENTIALS_BACKUP].text)]
  ELSE [result |-> "exit(1)", fs |-> f, creds |-> <<>>]

\* ------------------------------------------------------ the initial files
\* the value a section gives to its keys
ValueIn(name) ==
  CASE name = "default" -> "val-old"
    [] name = "dev" -> "val-dev"
    [] OTHER -> "val-prod"

\* the option names of one section: distinct after case folding
KeySeqs ==
  {ks \in UNION {[1..n -> FileKeys] : n \in 0..MaxItems} :
     \A i, j \in 1..Len(ks) : i # j => Lower(ks[i]) # Lower(ks[j])}

\* the section names of one file, in any order, each once
NameSeqs ==
  {ns \in UNION {[1..n -> SectionNames] : n \in 0..MaxSections} :
     \A i, j \in 1..Len(ns) : i # j => ns[i] # ns[j]}

RECURSIVE TextOf(_, _)
TextOf(ns, body) ==
  IF ns = <<>> THEN <<>>
  ELSE <<Header(Head(ns))>> \o
       [i \in 1..Len(body[Head(ns)]) |-> Option(body[Head(ns)][i], ValueIn(Head(ns)))] \o
       TextOf(Tail(ns), body)

Texts == {TextOf(ns, body) : ns \in NameSeqs, body \in [SectionNames -> KeySeqs]}

\* an older backup, left by an earlier export: it holds a default section
StaleText == <<Header(DEFAULT_ROLE), Option("key_id", "val-stale")>>

InitialFs ==
  {[p \in Paths |-> IF p = CREDENTIALS_FILE THEN FileOf(t) ELSE NoFile] : t \in Texts}
  \cup {[p \in Paths |-> IF p = CREDENTIALS_BACKUP THEN FileOf(t) ELSE NoFile] : t \in Texts}
  \cup {[p \in Paths |-> IF p = CREDENTIALS_FILE THEN FileOf(t) ELSE FileOf(b)] :
          t \in Texts, b \in {StaleText}}
  \cup {[p \in Paths |-> NoFile]}

\* ------------------------------------------------------------- the state
VARIABLES
  fs,            \* the two paths: each a file with its text, or no file
  creds,         \* self.creds._sections
  roles,         \* self.roles
  default_role,  \* self.default_role
  argv,          \* args of the running invocation
  pc,            \* where the running process is
  trace,         \* what the running invocation did outside its memory, in order
  status,        \* exit status of the last process
  last           \* the last step: its arguments and outcome, the object and the
                 \* files before it, whether it repeats the call before it,
                 \* whether it follows an invocation that completed export_role

vars == <<fs, creds, roles, default_role, argv, pc, trace, status, last>>

NoArgs == [role |-> "", region |-> "", export |-> FALSE]

NoCall ==
  [op |-> "none", role |-> "", region |-> "", export |-> FALSE, result |-> "",
   creds |-> <<>>, fs |-> [p \in Paths |-> NoFile],
   repeats |-> FALSE, after_export |-> FALSE]

Call(op, role, region, export, result) ==
  [op |-> op, role |-> role, region |-> region, export |-> export, result |-> result,
   creds |-> creds, fs |-> fs,
   repeats |-> (last.op = op /\ last.role = role /\ last.region = region
                /\ last.result = "ok"),
   after_export |-> \/ last.op = "export_role" /\ last.result = "ok"
                    \/ last.op = "parse_args" /\ last.after_export]

Init ==
  /\ fs \in InitialFs
  /\ creds = <<>>
  /\ roles = <<>>
  /\ default_role = "None"
  /\ argv = NoArgs
  /\ pc = "shell"
  /\ trace = <<>>
  /\ status = 0
  /\ last = NoCall

\* lines 90-98: a new process parses its command line
ParseArgs(role, region, export) ==
  /\ pc = "shell"
  /\ pc' = "main"
  /\ argv' = [role |-> role, region |-> region, export |-> export]
  /\ creds' = <<>>
  /\ roles' = <<>>
  /\ default_role' = "None"
  /\ trace' = <<>>
  /\ status' = 0
  /\ last' = Call("parse_args", role, region, export, "ok")
  /\ UNCHANGED fs

\* line 100 and lines 23-38: aws = AWSCredentials()
Construct ==
  /\ pc = "main"
  /\ LET r == LoadCall(fs) IN
       /\ fs' = r.fs
       /\ creds' = r.creds
       /\ roles' = Sections(r.creds)
       /\ default_role' = "None"
       /\ last' = Call("__init__", "", "", FALSE, r.result)
       /\ IF r.result = "ok"
          THEN /\ pc' = "constructed"
               /\ UNCHANGED <<trace, status>>
          ELSE /\ pc' = "shell"
               /\ trace' = Append(trace, Event("stderr", "Error", CREDENTIALS_FILE))
               /\ status' = 1
  /\ UNCHANGED argv

\* the effect of aws.set_default_role(role, region, export) on the object,
\* the file and the output
SetDefaultRole(role, region, export) ==
  LET r == SetDefaultRoleCall(creds, roles, role, region, export) IN
    /\ creds' = r.creds
    /\ default_role' = IF r.assigned THEN role ELSE default_role
    /\ fs' = IF r.written THEN OpenWrite(fs, CREDENTIALS_FILE, WriteText(r.creds)) ELSE fs
    /\ last' = Call("set_default_role", role, region, export, r.result)
    /\ UNCHANGED roles

\* the effect of aws.export_role(role)
ExportRole(role) ==
  LET r == ExportRoleCall(creds, fs, role) IN
    /\ fs' = r.fs
    /\ last' = Call("export_role", role, "", TRUE, r.result)
    /\ UNCHANGED <<creds, roles, default_role>>

\* line 101
MainSetDefaultRole ==
  /\ pc = "constructed"
  /\ SetDefaultRole(argv.role, argv.region, argv.export)
  /\ LET r == SetDefaultRoleCall(creds, roles, argv.role, argv.region, argv.export) IN
       IF r.result = "ok"
       THEN /\ pc' = "set"
            /\ trace' = trace \o r.events
            /\ UNCHANGED status
       ELSE /\ pc' = "shell"
            /\ trace' = trace \o r.events \o <<Event("stderr", "Traceback", r.result)>>
            /\ status' = 1
  /\ UNCHANGED argv

\* lines 103-104, export given
MainExportRole ==
  /\ pc = "set"
  /\ argv.export
  /\ ExportRole(DEFAULT_ROLE)
  /\ LET r == ExportRoleCall(creds, fs, DEFAULT_ROLE) IN
       IF r.result = "ok"
       THEN /\ trace' = trace \o r.events
            /\ status' = 0
       ELSE /\ trace' = trace \o r.events \o <<Event("stderr", "Traceback", r.result)>>
            /\ status' = 1
  /\ pc' = "shell"
  /\ UNCHANGED argv

\* line 103, export not given: the process ends
MainExit ==
  /\ pc = "set"
  /\ ~argv.export
  /\ pc' = "shell"
  /\ status' = 0
  /\ UNCHANGED <<fs, creds, roles, default_role, argv, trace, last>>

Next ==
  \/ \E role \in RoleArgs, region \in Regions, export \in BOOLEAN :
       ParseArgs(role, region, export)
  \/ Construct
  \/ MainSetDefaultRole
  \/ MainExportRole
  \/ MainExit

Spec == Init /\ [][Next]_vars

\* ---------------------------------------------- the class used as a library
\* a caller that is about to construct the object; at most one of the two
\* paths is present
InitApi ==
  /\ fs \in InitialFs
  /\ ~(Exists(fs, CREDENTIALS_FILE) /\ Exists(fs, CREDENTIALS_BACKUP))
  /\ creds = <<>>
  /\ roles = <<>>
  /\ default_role = "None"
  /\ argv = NoArgs
  /\ pc = "main"
  /\ trace = <<>>
  /\ status = 0
  /\ last = NoCall

\* a call of set_default_role on the constructed object; an exception goes
\* to the caller and the object stays
ApiSetDefaultRole(role, region, export) ==
  /\ pc = "constructed"
  /\ SetDefaultRole(role, region, export)
  /\ trace' = SetDefaultRoleCall(creds, roles, role, region, export).events
  /\ UNCHANGED <<argv, pc, status>>

\* a call of export_role on the constructed object
ApiExportRole(role) ==
  /\ pc = "constructed"
  /\ ExportRole(role)
  /\ trace' = ExportRoleCall(creds, fs, role).events
  /\ UNCHANGED <<argv, pc, status>>

NextApi ==
  \/ Construct
  \/ \E role \in RoleArgs, region \in Regions, export \in BOOLEAN :
       ApiSetDefaultRole(role, region, export)
  \/ \E role \in RoleArgs : ApiExportRole(role)

SpecApi == InitApi /\ [][NextApi]_vars

\* the command line, started with exactly one of the two paths present
InitOne == Init /\ (Exists(fs, CREDENTIALS_FILE) # Exists(fs, CREDENTIALS_BACKUP))

SpecOne == InitOne /\ [][Next]_vars

\* ================================================================ claims
RegionKeys == {"aws_default_region", "region"}

Count(items, key) == Cardinality({i \in 1..Len(items) : items[i].key = key})

\* the state right after a call of set_default_role
AfterSet == last.op = "set_default_role"
PreRole == Items(last.creds, last.role)
PreDefault == Items(last.creds, DEFAULT_ROLE)
NowDefault == Items(creds, DEFAULT_ROLE)

Printed(kinds) == \E i \in 1..Len(trace) : trace[i].ev \in kinds

\* ---- C1
C1_Case ==
  /\ AfterSet
  /\ ~last.export
  /\ HasSection(last.creds, last.role)
  /\ ~HasSection(last.creds, DEFAULT_ROLE)

C1_KeysAndRegion ==
  /\ last.result = "ok"
  /\ HasSection(creds, DEFAULT_ROLE)
  /\ KeySet(NowDefault) = KeySet(PreRole) \cup RegionKeys
  /\ Get(NowDefault, "AWS_DEFAULT_REGION") = last.region
  /\ Get(NowDefault, "REGION") = last.region

\* C1 as stated: on a store with `role` and without `default`, after
\* set_default_role(role, region, export=false) `default` exists, its keys are
\* the role's keys and the two region keys, EVERY key of the role carries the
\* role's value, and both region keys carry `region`.
C1_Original ==
  C1_Case =>
    /\ C1_KeysAndRegion
    /\ \A k \in KeySet(PreRole) : Get(NowDefault, k) = Get(PreRole, k)

\* C1 amended: on a store with `role` and without `default`, after
\* set_default_role(role, region, export=false) `default` exists, its keys are
\* the role's keys and the two region keys, every key of the role OTHER THAN
\* THE TWO REGION KEYS carries the role's value, and both region keys carry
\* `region`.
C1_Amended ==
  C1_Case =>
    /\ C1_KeysAndRegion
    /\ \A k \in KeySet(PreRole) \ RegionKeys : Get(NowDefault, k) = Get(PreRole, k)

C1_Witness ==
  /\ C1_Case
  /\ last.result = "ok"
  /\ KeySet(PreRole) = {"key_id", "region"}
  /\ Get(NowDefault, "key_id") = Get(PreRole, "key_id")
  /\ Get(NowDefault, "region") = last.region

\* ---- C2
\* C2: a set_default_role that repeats the call just made on the same object
\* (same role, a section of the file; same region; the first one completed)
\* completes too and leaves the `default` section and the written file as
\* the first call left them.
C2_Idempotent ==
  (AfterSet /\ last.repeats /\ last.role \in SeqToSet(roles)) =>
    /\ last.result = "ok"
    /\ NowDefault = PreDefault
    /\ fs[CREDENTIALS_FILE] = last.fs[CREDENTIALS_FILE]

\* ---- C3
\* C3: set_default_role with a role that is no section of the loaded store
\* fails: the invocation ends with a non-zero status, nothing is written and
\* no confirmation or export line is printed, and the files are as before.
C3_MissingRoleFails ==
  (AfterSet /\ ~HasSection(last.creds, last.role)) =>
    /\ last.result # "ok"
    /\ pc = "shell"
    /\ status # 0
    /\ fs = last.fs
    /\ ~Printed({"write", "confirm", "export"})

\* ---- C4
AfterLoad == last.op = "__init__"

C4_OnlyBackup ==
  AfterLoad /\ ~Exists(last.fs, CREDENTIALS_FILE) /\ Exists(last.fs, CREDENTIALS_BACKUP)

C4_Neither ==
  AfterLoad /\ ~Exists(last.fs, CREDENTIALS_FILE) /\ ~Exists(last.fs, CREDENTIALS_BACKUP)

\* C4: with only the backup present the constructor succeeds, the backup path
\* is gone, the primary path holds the backup's content and the store is the
\* parse of it; with neither path present the constructor writes to stderr,
\* the process exits with status 1 and no file is created.
C4_Recovery ==
  /\ C4_OnlyBackup =>
       /\ last.result = "ok"
       /\ pc = "constructed"
       /\ ~Exists(fs, CREDENTIALS_BACKUP)
       /\ fs[CREDENTIALS_FILE] = last.fs[CREDENTIALS_BACKUP]
       /\ creds = Parse(last.fs[CREDENTIALS_BACKUP].text)
       /\ roles = Sections(creds)
  /\ C4_Neither =>
       /\ last.result # "ok"
       /\ pc = "shell"
       /\ status = 1
       /\ Printed({"stderr"})
       /\ \A p \in Paths : ~Exists(fs, p)

C4_Witness ==
  /\ C4_OnlyBackup
  /\ pc = "constructed"
  /\ Len(creds) = MaxSections
  /\ Exists(fs, CREDENTIALS_FILE)

\* ---- C5
\* an invocation with --export and a role of the loaded store has ended
C5_Case ==
  /\ pc = "shell"
  /\ argv.export
  /\ last.op \in {"set_default_role", "export_role"}
  /\ argv.role \in SeqToSet(roles)

\* C5: such an invocation wrote the store with the updated default to the
\* primary path, then printed one export line per key of default (upper-cased,
\* in the section's order), then renamed primary to backup, then printed the
\* notice; it printed no confirmation; at its end the primary path is gone
\* and the backup holds what was written, default section included.
C5_ExportOrder ==
  C5_Case =>
    LET n == Len(NowDefault) IN
    /\ last.op = "export_role"
    /\ last.result = "ok"
    /\ status = 0
    /\ Len(trace) = n + 3
    /\ trace[1] = Event("write", CREDENTIALS_FILE, "")
    /\ last.fs[CREDENTIALS_FILE] = FileOf(WriteText(creds))
    /\ \A i \in 1..n :
         trace[1 + i] = Event("export", Upper(NowDefault[i].key), NowDefault[i].val)
    /\ trace[n + 2] = Event("rename", CREDENTIALS_FILE, CREDENTIALS_BACKUP)
    /\ trace[n + 3] = Event("notice", CREDENTIALS_FILE, CREDENTIALS_BACKUP)
    /\ ~Printed({"confirm"})
    /\ ~Exists(fs, CREDENTIALS_FILE)
    /\ fs[CREDENTIALS_BACKUP] = last.fs[CREDENTIALS_FILE]
    /\ HasSection(Parse(fs[CREDENTIALS_BACKUP].text), DEFAULT_ROLE)

C5_Witness ==
  /\ C5_Case
  /\ last.result = "ok"
  /\ Len(NowDefault) > 2
  /\ trace[2].key = "KEY_ID"
  /\ ~Exists(fs, CREDENTIALS_FILE)

\* ---- C6
\* C6: when export_role runs with a file already at the backup path, it
\* fails: the old backup keeps its content and the notice is not printed.
C6_BackupCollisionFails ==
  (last.op = "export_role" /\ Exists(last.fs, CREDENTIALS_BACKUP)) =>
    /\ last.result # "ok"
    /\ status # 0
    /\ fs[CREDENTIALS_BACKUP] = last.fs[CREDENTIALS_BACKUP]
    /\ ~Printed({"notice"})

\* ---- C7
\* C7: after set_default_role(role, region, ...) with a role of the file that
\* itself has a region key, default's AWS_DEFAULT_REGION and REGION both hold
\* `region`, and each of the two keys occurs once in default.
C7_RegionWins ==
  (AfterSet /\ last.role \in SeqToSet(roles) /\ KeySet(PreRole) \cap RegionKeys # {}) =>
    /\ HasSection(creds, DEFAULT_ROLE)
    /\ \A k \in RegionKeys : Count(NowDefault, k) = 1
    /\ Get(NowDefault, "AWS_DEFAULT_REGION") = last.region
    /\ Get(NowDefault, "REGION") = last.region

\* ---- C8
\* C8: after set_default_role(role, region, ...) with a role of the file on a
\* store whose default already holds keys, every key the role has carries the
\* role's value (the two region keys, which carry `region`, left aside),
\* every other key of the old default that is no region key is still there
\* with its old value, and no key of the old default is gone.
C8_Merge ==
  (AfterSet /\ last.role \in SeqToSet(roles) /\ PreDefault # <<>>) =>
    /\ KeySet(PreDefault) \subseteq KeySet(NowDefault)
    /\ \A k \in KeySet(PreDefault) \ (KeySet(PreRole) \cup RegionKeys) :
         Get(NowDefault, k) = Get(PreDefault, k)
    /\ \A k \in KeySet(PreRole) \ RegionKeys :
         k \in KeySet(NowDefault) /\ Get(NowDefault, k) = Get(PreRole, k)

\* ---- C9
HeaderNames(text) ==
  LET idx == {i \in 1..Len(text) : text[i].kind = "section"}
      nth(k) == CHOOSE i \in idx : Cardinality({j \in idx : j < i}) = k - 1
  IN [k \in 1..Cardinality(idx) |-> text[nth(k)].key]

WrittenNames == HeaderNames(fs[CREDENTIALS_FILE].text)

\* C9: after a set_default_role that completed, the section headers of the
\* primary file are in ascending order of name, a default section the call
\* created included, and they are the sections of the store before the call
\* plus default, each once; the options of every other section are the ones
\* the store held.
C9_SortedWrite ==
  (AfterSet /\ last.result = "ok") =>
    /\ Exists(fs, CREDENTIALS_FILE)
    /\ \A i, j \in 1..Len(WrittenNames) :
         i < j => StrOrd(WrittenNames[i]) < StrOrd(WrittenNames[j])
    /\ SeqToSet(WrittenNames) = SeqToSet(Sections(last.creds)) \cup {DEFAULT_ROLE}
    /\ \A n \in SeqToSet(Sections(last.creds)) \ {DEFAULT_ROLE} :
         Items(Parse(fs[CREDENTIALS_FILE].text), n) = Items(last.creds, n)

C9_Witness ==
  /\ AfterSet
  /\ last.result = "ok"
  /\ ~HasSection(last.creds, DEFAULT_ROLE)
  /\ Len(last.creds) = MaxSections
  /\ StrOrd(last.creds[1].name) > StrOrd(last.creds[Len(last.creds)].name)
  /\ WrittenNames[1] = DEFAULT_ROLE

\* ---- C10
\* C10: started with exactly one of the two paths present, exactly one of
\* them is present in every state; after an invocation it is the backup
\* exactly when that invocation completed export_role; and the constructor of
\* an invocation that follows such an invocation succeeds by renaming the
\* backup to the primary path, content kept.
C10_OneFile ==
  /\ Exists(fs, CREDENTIALS_FILE) # Exists(fs, CREDENTIALS_BACKUP)
  /\ (pc = "shell" /\ argv # NoArgs) =>
       (Exists(fs, CREDENTIALS_BACKUP) <=>
          (last.op = "export_role" /\ last.result = "ok"))
  /\ (AfterLoad /\ last.after_export) =>
       /\ last.result = "ok"
       /\ ~Exists(last.fs, CREDENTIALS_FILE)
       /\ fs[CREDENTIALS_FILE] = last.fs[CREDENTIALS_BACKUP]
       /\ HasSection(creds, DEFAULT_ROLE)

C10_Witness ==
  /\ AfterLoad
  /\ last.after_export
  /\ pc = "constructed"
  /\ Exists(fs, CREDENTIALS_FILE)
  /\ ~Exists(fs, CREDENTIALS_BACKUP)

====
